---- MODULE Spec2Model ----
(***************************************************************************)
(* Agent_RAG: the ReAct agent loop (src/src/agent/react_agent.py), the      *)
(* reasoning engine's fail-safe defaults (src/src/agent/reasoning.py), the  *)
(* action executor (src/src/agent/action_executor.py) and the shared        *)
(* retriever (src/src/core/retriever.py).                                   *)
(*                                                                          *)
(* Numbers in [0,1] (confidence, score, threshold) are kept in tenths:      *)
(* 7 stands for 0.7.  Texts are short tokens; a formatted message is one    *)
(* distinct token per formatted value.                                      *)
(***************************************************************************)
EXTENDS Integers, Sequences, FiniteSets, TLC

(***************************************************************************)
(* Bounds of the model.                                                     *)
(***************************************************************************)
MaxIterations == 2      \* agent.max_iterations ranges over 0..MaxIterations
MaxCalls == 2           \* retrieve calls per invocation in the concurrent model

(***************************************************************************)
(* Program constants.                                                       *)
(***************************************************************************)
ConfidenceThreshold == 7    \* AgentConfig.confidence_threshold = 0.7
RetrievalTopK == 5          \* RetrievalConfig.top_k
ExpansionFactor == 4        \* react_loop passes expansion_factor=4
DefaultOriginalTopK == 5    \* react_loop: len(context) if context else 5
EarlyReturnScore == 9       \* react_loop: score >= 0.9
FailSafeConfidence == 3     \* reason(): confidence 0.3 on oracle failure
ValidationErrorScore == 7   \* validate_answer(): score 0.7 on oracle failure
TextInconsistentScore == 3  \* _parse_validation_result: 0.3 on "inconsistent"
TextConsistentScore == 7    \* _parse_validation_result: 0.7 without the marker
DefaultReturnConfidence == 5 \* react_loop: .get("confidence", 0.5)
ReplanWindow == 3           \* _replan: original_path[-3:]

NoChunk == -1       \* metadata without "chunk_index" (formats as '')
NoKey == -1         \* a dict key that is absent from an execution-path entry
None == "<None>"    \* Python None where a text is expected
Absent == "<absent>"
NoAnswerText == "no-answer-placeholder"         \* "无法生成答案"
Query == "q"
Procs == {1, 2}     \* concurrent loop invocations sharing one retriever

(***************************************************************************)
(* Evidence items (langchain Document): source, chunk_index, content.       *)
(***************************************************************************)
dA1  == [source |-> "docA", chunk_index |-> 1, content |-> "c1"]
dA1b == [source |-> "docA", chunk_index |-> 1, content |-> "c2"]
dB   == [source |-> "docB", chunk_index |-> 2, content |-> "c3"]

\* What the evidence provider may hand back for one search / expand call.
ProviderResults == { <<>>, <<dA1b, dB>> }
\* Caller-supplied initial_context values (<<>> stands for None and for []).
InitialContexts == { <<>>, <<dA1>>, <<dA1, dA1b>> }
ToolResults == { "r1", "r2" }
Confidences == { 3, 7 }

\* f"{source}_{chunk_index}": with an integer-or-absent chunk_index the join
\* by "_" is injective, so the key is the pair.
DocId(doc) == <<doc.source, doc.chunk_index>>

RECURSIVE DedupFrom(_, _, _)
DedupFrom(documents, i, unique_docs) ==
    IF i > Len(documents) THEN unique_docs
    ELSE IF \E j \in 1..Len(unique_docs) : DocId(unique_docs[j]) = DocId(documents[i])
         THEN DedupFrom(documents, i + 1, unique_docs)
         ELSE DedupFrom(documents, i + 1, Append(unique_docs, documents[i]))

_deduplicate_documents(documents) == DedupFrom(documents, 1, <<>>)

NoDuplicateKeys(documents) ==
    \A i, j \in 1..Len(documents) :
        DocId(documents[i]) = DocId(documents[j]) => i = j

Sources(documents) == [i \in 1..Len(documents) |-> documents[i].source]

(***************************************************************************)
(* Formatted messages: one token per formatted count.                       *)
(***************************************************************************)
ExpandedMsg(n) == <<"expanded+0", "expanded+1", "expanded+2">>[n + 1]
RetrievedMsg(n) == <<"retrieved 0", "retrieved 1", "retrieved 2">>[n + 1]
ReplanMsg == "inconsistent, replanning"
SearchFailedMsg == "search failed"
AnswerFailedMsg == "answer generation failed"
ToolFailedMsg == "tool call failed"
NoRetrieverMsg == "retriever not initialised"
NoToolsMsg == "tool registry not initialised"

(***************************************************************************)
(* ReasoningEngine.reason: one oracle call.  The oracle either raises or    *)
(* answers with a text whose labelled fields are parsed; an action that is  *)
(* none of search/answer/tool_call leaves the default "answer".             *)
(***************************************************************************)
ReasonResponses ==
    { [fail |-> TRUE, thought |-> "", action |-> "", action_input |-> "", confidence |-> 0] }
    \cup
    [ fail : {FALSE}, thought : {"t1"}, action : {"answer", "other"},
      action_input : {"", "x"}, confidence : Confidences ]
    \cup
    [ fail : {FALSE}, thought : {"t1"}, action : {"search"},
      action_input : {""}, confidence : Confidences ]
    \cup
    [ fail : {FALSE}, thought : {"t1"}, action : {"tool_call"},
      action_input : {"x"}, confidence : Confidences ]

_parse_reasoning(resp) ==
    [ thought |-> resp.thought,
      action |-> IF resp.action \in {"search", "answer", "tool_call"}
                 THEN resp.action ELSE "answer",
      action_input |-> resp.action_input,
      confidence |-> resp.confidence ]

\* mutant: the fail-safe step carries the default confidence 0.5
reason_failsafe_half(resp) ==
    IF resp.fail
    THEN [ thought |-> "reasoning failed", action |-> "answer",
           action_input |-> "", confidence |-> DefaultReturnConfidence ]
    ELSE _parse_reasoning(resp)

reason(resp) ==
    IF resp.fail
    THEN [ thought |-> "reasoning failed", action |-> "answer",
           action_input |-> "", confidence |-> FailSafeConfidence ]
    ELSE _parse_reasoning(resp)

(***************************************************************************)
(* ReasoningEngine.validate_answer: one oracle call.  kind "error" is a     *)
(* raising oracle, "json" a parsed JSON object with its own fields, "text"  *)
(* the text-matching fallback on the inconsistency marker.                  *)
(***************************************************************************)
Scores == { 3, 9 }
ValidationResponses ==
    { [kind |-> "error", consistent |-> TRUE, score |-> 0] }
    \cup [ kind : {"json"}, consistent : BOOLEAN, score : Scores ]
    \* a JSON object whose "score" is 1.5: float() takes it as it is
    \cup { [kind |-> "json", consistent |-> TRUE, score |-> 15] }

_parse_validation_result(vresp) ==
    IF vresp.kind = "json"
    THEN [ consistent |-> vresp.consistent, score |-> vresp.score, reason |-> "json reason" ]
    ELSE [ consistent |-> vresp.consistent,
           score |-> IF vresp.consistent THEN TextConsistentScore ELSE TextInconsistentScore,
           reason |-> "text match" ]

validate_answer(vresp) ==
    IF vresp.kind = "error"
    THEN [ consistent |-> TRUE, score |-> ValidationErrorScore, reason |-> "validation failed" ]
    ELSE _parse_validation_result(vresp)

NoValidation == [ consistent |-> TRUE, score |-> NoKey, reason |-> Absent ]

(***************************************************************************)
(* ActionExecutor.  The executor is wired as RAGSystem.__init__ wires it or *)
(* as ReActAgent.__init__ builds its default (no collaborators).  The       *)
(* outcome of each external call is an input of the operator.               *)
(***************************************************************************)
ProviderOutcomes ==
    { [raises |-> TRUE, docs |-> <<>>] } \cup [ raises : {FALSE}, docs : ProviderResults ]
GeneratorOutcomes ==
    { [raises |-> TRUE, text |-> ""] } \cup [ raises : {FALSE}, text : {"a2"} ]
ToolOutcomes ==
    { [raises |-> TRUE, text |-> ""] } \cup [ raises : {FALSE}, text : ToolResults ]

\* BaseRetriever.retrieve(query, top_k): stores top_k in the shared retriever's
\* search_kwargs, then invokes it; a backend failure is logged and re-raised.
retrieve(top_k, provider) ==
    [ k |-> IF top_k = NoKey THEN RetrievalTopK ELSE top_k,
      raises |-> provider.raises,
      docs |-> provider.docs ]

\* BaseRetriever.expand_retrieval
retriever_expand_retrieval(original_top_k, expansion_factor, provider) ==
    retrieve(original_top_k * expansion_factor, provider)

\* ActionExecutor.expand_retrieval: no retriever gives [], otherwise the
\* retriever's answer, or its exception, passes through unchanged.
expand_retrieval(has_retriever, original_top_k, expansion_factor, provider) ==
    IF ~has_retriever
    THEN [ k |-> NoKey, raises |-> FALSE, docs |-> <<>> ]
    ELSE retriever_expand_retrieval(original_top_k, expansion_factor, provider)

_execute_search(has_retriever, provider) ==
    IF ~has_retriever
    THEN [ status |-> "error", result |-> NoRetrieverMsg, documents |-> <<>>, k |-> NoKey ]
    ELSE LET r == retrieve(NoKey, provider) IN
         IF r.raises
         THEN [ status |-> "error", result |-> SearchFailedMsg, documents |-> <<>>, k |-> r.k ]
         ELSE [ status |-> "success", result |-> RetrievedMsg(Len(r.docs)),
                documents |-> r.docs, k |-> r.k ]

_execute_answer(has_generator, answer_input, context, gen) ==
    IF ~has_generator
    THEN [ status |-> "success",
           result |-> IF answer_input # "" THEN answer_input ELSE NoAnswerText,
           documents |-> context, k |-> NoKey ]
    ELSE IF answer_input # ""
         THEN [ status |-> "success", result |-> answer_input, documents |-> context, k |-> NoKey ]
         ELSE IF gen.raises
              THEN [ status |-> "error", result |-> AnswerFailedMsg,
                     documents |-> context, k |-> NoKey ]
              ELSE [ status |-> "success", result |-> gen.text,
                     documents |-> context, k |-> NoKey ]

\* tool_input is "name:params"; the synthetic document carries the source
\* "tool:" + name and no chunk_index.
ToolSource(tool_input) == IF tool_input = "" THEN "tool:" ELSE "tool:x"

_execute_tool_call(has_tools, tool_input, tool) ==
    IF ~has_tools
    THEN [ status |-> "error", result |-> NoToolsMsg, documents |-> <<>>, k |-> NoKey ]
    ELSE IF tool.raises
         THEN [ status |-> "error", result |-> ToolFailedMsg, documents |-> <<>>, k |-> NoKey ]
         ELSE [ status |-> "success", result |-> tool.text,
                documents |-> << [ source |-> ToolSource(tool_input),
                                   chunk_index |-> NoChunk, content |-> tool.text ] >>,
                k |-> NoKey ]

\* mutant: an action that is none of the three is executed as an answer
execute_unknown_as_answer(wiring, action, action_input, context, provider, gen, tool) ==
    IF action = "search" THEN _execute_search(wiring.retriever, provider)
    ELSE IF action = "tool_call"
         THEN _execute_tool_call(wiring.tools, action_input, tool)
    ELSE _execute_answer(wiring.generator, action_input, context, gen)

\* ActionExecutor.execute: dispatch on the action.
execute(wiring, action, action_input, context, provider, gen, tool) ==
    IF action = "search" THEN _execute_search(wiring.retriever, provider)
    ELSE IF action = "answer"
         THEN _execute_answer(wiring.generator, action_input, context, gen)
    ELSE IF action = "tool_call"
         THEN _execute_tool_call(wiring.tools, action_input, tool)
    ELSE [ status |-> "error", result |-> "unknown action", documents |-> <<>>, k |-> NoKey ]

(***************************************************************************)
(* State of one react_loop invocation, of its caller, and of the retriever  *)
(* the invocations share.                                                   *)
(***************************************************************************)
VARIABLES
    cfg,                \* agent configuration, executor wiring, the call's arguments
    caller_context,     \* the list object the caller passed as initial_context
    aliased,            \* context is that same list object
    context,            \* accumulated evidence
    execution_path,
    previous_reasoning,
    best_answer,
    best_score,
    iteration,          \* the for loop's index (0-based)
    reasoning_result,   \* the step the current iteration reasoned out
    pc,                 \* "running", "success", "exhausted" or "raised"
    result,             \* the returned dict
    calls,              \* external calls issued so far, by kind
    search_k,           \* retriever.search_kwargs["k"]
    cpc, creq, cused, ccalls,  \* concurrent retrieve calls (see RetrieveSetK)
    ml_index, ml_call, ml_ret, \* a MultilevelIndex, one retrieve call on it, its outcome
    rr_call, rr_ret,           \* one Reranker.rerank call and its outcome
    qr_call, qr_ret,           \* one QueryRouter.route call and its outcome
    re_call, re_ret,           \* one ReasoningEngine call (reason or validate_answer)
    ex_call, ex_ret,           \* one ActionExecutor.execute call and its outcome
    sq_call, sq_ret,           \* one single-pass RAGSystem.query call and its outcome
    rw_call, rw_ret            \* one QueryRewriter.rewrite call and its outcome

loop_vars == << cfg, caller_context, aliased, context, execution_path,
                previous_reasoning, best_answer, best_score, iteration,
                reasoning_result, pc, result, calls >>
conc_vars == << cpc, creq, cused, ccalls >>
ml_vars == << ml_index, ml_call, ml_ret >>
rr_vars == << rr_call, rr_ret >>
qr_vars == << qr_call, qr_ret >>
re_vars == << re_call, re_ret >>
ex_vars == << ex_call, ex_ret >>
sq_vars == << sq_call, sq_ret >>
rw_vars == << rw_call, rw_ret >>
comp_vars == << ml_vars, rr_vars, qr_vars, re_vars, ex_vars, sq_vars, rw_vars >>
vars == << loop_vars, search_k, conc_vars, comp_vars >>

\* RAGSystem.__init__ hands the executor its retriever, generator and registry.
Wirings ==
    { [ retriever |-> TRUE, generator |-> TRUE, tools |-> TRUE ] }

Configs ==
    [ max_iterations : 0..MaxIterations,
      enable_reretrieval : BOOLEAN,
      enable_replanning : BOOLEAN,
      wiring : Wirings,
      initial_context : InitialContexts ]

PrevNone ==
    [ kind |-> "none", steps |-> <<>>, thought |-> "", action |-> "",
      result |-> "", reason |-> "" ]

NoResult ==
    [ answer |-> None, confidence |-> NoKey, score |-> NoKey,
      sources |-> <<>>, iterations |-> NoKey ]

NoStep == [ thought |-> "", action |-> "", action_input |-> "", confidence |-> NoKey ]

NoCalls == [ reason |-> 0, expand |-> 0, execute |-> 0, validate |-> 0 ]

\* react_loop lines 60-64: context = initial_context or [] binds context to
\* the caller's own list when that list is non-empty.
LoopInit ==
    /\ cfg \in Configs
    /\ caller_context = cfg.initial_context
    /\ aliased = (cfg.initial_context # <<>>)
    /\ context = cfg.initial_context
    /\ execution_path = <<>>
    /\ previous_reasoning = PrevNone
    /\ best_answer = None
    /\ best_score = 0
    /\ iteration = 0
    /\ reasoning_result = NoStep
    /\ pc = "running"
    /\ result = NoResult
    /\ calls = NoCalls

ConcInit ==
    /\ cpc = [p \in Procs |-> "idle"]
    /\ creq = [p \in Procs |-> NoKey]
    /\ cused = [p \in Procs |-> NoKey]
    /\ ccalls = [p \in Procs |-> 0]

\* No call on the index, the reranker or the router is in progress.
NoCall == [ pc |-> "idle" ]

MergerIdle == ml_index = NoCall /\ ml_call = NoCall /\ ml_ret = NoCall
RerankIdle == rr_call = NoCall /\ rr_ret = NoCall
RouterIdle == qr_call = NoCall /\ qr_ret = NoCall
ReasoningIdle == re_call = NoCall /\ re_ret = NoCall
ExecutorIdle == ex_call = NoCall /\ ex_ret = NoCall
QueryIdle == sq_call = NoCall /\ sq_ret = NoCall
RewriteIdle == rw_call = NoCall /\ rw_ret = NoCall

CompInit ==
    /\ MergerIdle /\ RerankIdle /\ RouterIdle
    /\ ReasoningIdle /\ ExecutorIdle /\ QueryIdle /\ RewriteIdle

Init == LoopInit /\ ConcInit /\ search_k = RetrievalTopK /\ CompInit

(***************************************************************************)
(* react_loop, one action per way an iteration can end.                     *)
(***************************************************************************)
\* mutant: the entry logs the 0-based loop index
Entry_zero_based(it, thought, action, action_input, res, confidence, validation) ==
    [ iteration |-> it - 1, thought |-> thought, action |-> action,
      action_input |-> action_input, result |-> res,
      confidence |-> confidence, validation |-> validation ]

Entry(it, thought, action, action_input, res, confidence, validation) ==
    [ iteration |-> it, thought |-> thought, action |-> action,
      action_input |-> action_input, result |-> res,
      confidence |-> confidence, validation |-> validation ]

Truthy(text) == text \notin { None, "" }

Last(path) == path[Len(path)]

\* mutant: the gate does not look at the remaining budget
ReretrievalGate_any_iteration(step) ==
    /\ cfg.enable_reretrieval
    /\ step.confidence < ConfidenceThreshold
    /\ step.action = "answer"

\* lines 82-87
ReretrievalGate(step) ==
    /\ cfg.enable_reretrieval
    /\ step.confidence < ConfidenceThreshold
    /\ step.action = "answer"
    /\ iteration < cfg.max_iterations - 1

\* lines 135-139
ReplanGate(validation) ==
    /\ ~validation.consistent
    /\ cfg.enable_replanning
    /\ iteration < cfg.max_iterations - 1

\* mutant: the evidence count is passed on as it is, 0 for no evidence
OriginalTopK_bare_count(docs) == Len(docs)

\* line 93
OriginalTopK(docs) == IF Len(docs) > 0 THEN Len(docs) ELSE DefaultOriginalTopK

\* context.extend(new_docs); context = self._deduplicate_documents(context):
\* extend changes the list object in place, the assignment rebinds context
\* to a new list.
MergeContext(new_docs) ==
    /\ caller_context' = IF aliased THEN context \o new_docs ELSE caller_context
    /\ context' = _deduplicate_documents(context \o new_docs)
    /\ aliased' = FALSE

\* mutant: the summary lists the whole path
_replan_whole_path(original_path, failure_reason) ==
    [ kind |-> "replan",
      steps |-> [ i \in 1..Len(original_path) |->
                    << original_path[i].iteration, original_path[i].thought >> ],
      thought |-> "", action |-> "", result |-> Query,
      reason |-> failure_reason ]

\* _replan: the last ReplanWindow entries of the path, the failure reason, the query
_replan(original_path, failure_reason) ==
    LET n == Len(original_path)
        from == IF n > ReplanWindow THEN n - ReplanWindow + 1 ELSE 1
    IN [ kind |-> "replan",
         steps |-> [ i \in 1..(n - from + 1) |->
                       << original_path[from + i - 1].iteration,
                          original_path[from + i - 1].thought >> ],
         thought |-> "", action |-> "", result |-> Query,
         reason |-> failure_reason ]

\* line 208
Observation(thought, action, res) ==
    [ kind |-> "observation", steps |-> <<>>, thought |-> thought,
      action |-> action, result |-> res, reason |-> "" ]

Running == pc = "running" /\ iteration < cfg.max_iterations

\* lines 82-109, expand call returned
IterReretrieval ==
    /\ Running
    /\ \E resp \in ReasonResponses, provider \in ProviderOutcomes :
         LET step == reason(resp)
             x == expand_retrieval(cfg.wiring.retriever, OriginalTopK(context),
                                   ExpansionFactor, provider)
         IN /\ reasoning_result' = step
            /\ ReretrievalGate(step)
            /\ ~x.raises
            /\ MergeContext(x.docs)
            /\ execution_path' = Append(execution_path,
                   Entry(iteration + 1, step.thought, "reretrieval", Absent,
                         ExpandedMsg(Len(x.docs)), step.confidence, NoValidation))
            /\ search_k' = IF x.k = NoKey THEN search_k ELSE x.k
    /\ calls' = [calls EXCEPT !.reason = @ + 1, !.expand = @ + 1]
    /\ iteration' = iteration + 1
    /\ UNCHANGED << cfg, previous_reasoning, best_answer, best_score, pc, result, conc_vars, comp_vars >>

\* lines 82-95, the expand call raised: nothing catches it
IterReretrievalRaises ==
    /\ Running
    /\ \E resp \in ReasonResponses, provider \in ProviderOutcomes :
         LET step == reason(resp)
             x == expand_retrieval(cfg.wiring.retriever, OriginalTopK(context),
                                   ExpansionFactor, provider)
         IN /\ reasoning_result' = step
            /\ ReretrievalGate(step)
            /\ x.raises
            /\ search_k' = x.k
    /\ calls' = [calls EXCEPT !.reason = @ + 1, !.expand = @ + 1]
    /\ pc' = "raised"
    /\ UNCHANGED << cfg, caller_context, aliased, context, execution_path,
                    previous_reasoning, best_answer, best_score, iteration,
                    result, conc_vars, comp_vars >>

\* lines 112-156: answer executed, validated inconsistent, re-planned
IterReplan ==
    /\ Running
    /\ \E resp \in ReasonResponses, gen \in GeneratorOutcomes, vresp \in ValidationResponses :
         LET step == reason(resp)
             validation == validate_answer(vresp)
         IN /\ reasoning_result' = step
            /\ ~ReretrievalGate(step)
            /\ step.action = "answer"
            /\ ReplanGate(validation)
            /\ previous_reasoning' = _replan(execution_path, validation.reason)
            /\ execution_path' = Append(execution_path,
                   Entry(iteration + 1, step.thought, step.action, Absent,
                         ReplanMsg, NoKey, validation))
    /\ calls' = [calls EXCEPT !.reason = @ + 1, !.execute = @ + 1, !.validate = @ + 1]
    /\ iteration' = iteration + 1
    /\ UNCHANGED << cfg, caller_context, aliased, context, best_answer, best_score,
                    pc, result, search_k, conc_vars, comp_vars >>

\* mutant: the latest answer always replaces the best one
BestAfter_latest(answer, score) == [ answer |-> answer, score |-> score ]

\* mutant: an answer of equal score replaces the best one
BestAfter_not_less(answer, score) ==
    IF score >= best_score
    THEN [ answer |-> answer, score |-> score ]
    ELSE [ answer |-> best_answer, score |-> best_score ]

\* lines 158-161
BestAfter(answer, score) ==
    IF score > best_score
    THEN [ answer |-> answer, score |-> score ]
    ELSE [ answer |-> best_answer, score |-> best_score ]

\* mutant: strict comparison with 0.9
EarlySuccess_strict(validation) ==
    validation.score > EarlyReturnScore /\ validation.consistent

\* lines 163-164
EarlySuccess(validation) ==
    validation.score >= EarlyReturnScore /\ validation.consistent

\* lines 112-181: answer executed, validated, good enough: early return
IterAnswerSuccess ==
    /\ Running
    /\ \E resp \in ReasonResponses, gen \in GeneratorOutcomes, vresp \in ValidationResponses :
         LET step == reason(resp)
             answer == _execute_answer(cfg.wiring.generator, step.action_input,
                                       context, gen).result
             validation == validate_answer(vresp)
             best == BestAfter(answer, validation.score)
         IN /\ reasoning_result' = step
            /\ ~ReretrievalGate(step)
            /\ step.action = "answer"
            /\ ~ReplanGate(validation)
            /\ EarlySuccess(validation)
            /\ best_answer' = best.answer
            /\ best_score' = best.score
            /\ execution_path' = Append(execution_path,
                   Entry(iteration + 1, step.thought, step.action, Absent,
                         answer, step.confidence, validation))
            /\ result' = [ answer |-> answer, confidence |-> step.confidence,
                           score |-> validation.score, sources |-> Sources(context),
                           iterations |-> iteration + 1 ]
    /\ calls' = [calls EXCEPT !.reason = @ + 1, !.execute = @ + 1, !.validate = @ + 1]
    /\ pc' = "success"
    /\ UNCHANGED << cfg, caller_context, aliased, context, previous_reasoning,
                    iteration, search_k, conc_vars, comp_vars >>

\* lines 112-190: answer executed, validated, logged; the loop goes on
IterAnswer ==
    /\ Running
    /\ \E resp \in ReasonResponses, gen \in GeneratorOutcomes, vresp \in ValidationResponses :
         LET step == reason(resp)
             answer == _execute_answer(cfg.wiring.generator, step.action_input,
                                       context, gen).result
             validation == validate_answer(vresp)
             best == BestAfter(answer, validation.score)
         IN /\ reasoning_result' = step
            /\ ~ReretrievalGate(step)
            /\ step.action = "answer"
            /\ ~ReplanGate(validation)
            /\ ~EarlySuccess(validation)
            /\ best_answer' = best.answer
            /\ best_score' = best.score
            /\ execution_path' = Append(execution_path,
                   Entry(iteration + 1, step.thought, step.action, Absent,
                         answer, step.confidence, validation))
    /\ calls' = [calls EXCEPT !.reason = @ + 1, !.execute = @ + 1, !.validate = @ + 1]
    /\ iteration' = iteration + 1
    /\ UNCHANGED << cfg, caller_context, aliased, context, previous_reasoning,
                    pc, result, search_k, conc_vars, comp_vars >>

\* lines 112-117, 192-208: search or tool_call
IterOther ==
    /\ Running
    /\ \E resp \in ReasonResponses, provider \in ProviderOutcomes, tool \in ToolOutcomes :
         LET step == reason(resp)
             action_result == execute(cfg.wiring, step.action, step.action_input,
                                      context, provider, [raises |-> TRUE, text |-> ""], tool)
         IN /\ reasoning_result' = step
            /\ ~ReretrievalGate(step)
            /\ step.action # "answer"
            /\ MergeContext(action_result.documents)
            /\ execution_path' = Append(execution_path,
                   Entry(iteration + 1, step.thought, step.action, step.action_input,
                         action_result.result, step.confidence, NoValidation))
            /\ previous_reasoning' =
                   Observation(step.thought, step.action, action_result.result)
            /\ search_k' = IF action_result.k = NoKey THEN search_k ELSE action_result.k
    /\ calls' = [calls EXCEPT !.reason = @ + 1, !.execute = @ + 1]
    /\ iteration' = iteration + 1
    /\ UNCHANGED << cfg, best_answer, best_score, pc, result, conc_vars, comp_vars >>

\* line 211: best_answer or execution_path[-1].get("result", ...)
FinalAnswerRaises == ~Truthy(best_answer) /\ execution_path = <<>>

FinalAnswer ==
    IF Truthy(best_answer) THEN best_answer ELSE Last(execution_path).result

\* line 217
FinalConfidence ==
    IF execution_path # <<>> /\ Last(execution_path).confidence # NoKey
    THEN Last(execution_path).confidence
    ELSE DefaultReturnConfidence

\* lines 210-222: iteration budget used up
LoopExhausted ==
    /\ pc = "running"
    /\ iteration >= cfg.max_iterations
    /\ ~FinalAnswerRaises
    /\ result' = [ answer |-> FinalAnswer, confidence |-> FinalConfidence,
                   score |-> best_score, sources |-> Sources(context),
                   iterations |-> Len(execution_path) ]
    /\ pc' = "exhausted"
    /\ UNCHANGED << cfg, caller_context, aliased, context, execution_path,
                    previous_reasoning, best_answer, best_score, iteration,
                    reasoning_result, calls, search_k, conc_vars, comp_vars >>

\* line 211 on an empty execution path: IndexError
LoopExhaustedRaises ==
    /\ pc = "running"
    /\ iteration >= cfg.max_iterations
    /\ FinalAnswerRaises
    /\ pc' = "raised"
    /\ UNCHANGED << cfg, caller_context, aliased, context, execution_path,
                    previous_reasoning, best_answer, best_score, iteration,
                    reasoning_result, result, calls, search_k, conc_vars, comp_vars >>

Next ==
    \/ IterReretrieval
    \/ IterReretrievalRaises
    \/ IterReplan
    \/ IterAnswerSuccess
    \/ IterAnswer
    \/ IterOther
    \/ LoopExhausted
    \/ LoopExhaustedRaises

Spec == Init /\ [][Next]_vars

(***************************************************************************)
(* A long run.  The loop is picked up after PastIterations iterations that  *)
(* each reasoned a search which found nothing, with MaxIterations           *)
(* iterations of its budget left: the execution path is then longer than    *)
(* the window _replan reads.                                                *)
(***************************************************************************)
PastIterations == 4

PastStep ==
    reason([ fail |-> FALSE, thought |-> "t1", action |-> "search",
             action_input |-> "", confidence |-> ConfidenceThreshold ])
PastRecord ==
    execute([ retriever |-> TRUE, generator |-> TRUE, tools |-> TRUE ],
            PastStep.action, PastStep.action_input, <<>>,
            [ raises |-> FALSE, docs |-> <<>> ],
            [ raises |-> TRUE, text |-> "" ], [ raises |-> TRUE, text |-> "" ])

InitLate ==
    /\ cfg \in [ max_iterations : { PastIterations + MaxIterations },
                 enable_reretrieval : BOOLEAN,
                 enable_replanning : BOOLEAN,
                 wiring : Wirings,
                 initial_context : { <<>> } ]
    /\ caller_context = <<>>
    /\ aliased = FALSE
    /\ context = <<>>
    /\ execution_path =
          [ i \in 1..PastIterations |->
              Entry(i, PastStep.thought, PastStep.action, PastStep.action_input,
                    PastRecord.result, PastStep.confidence, NoValidation) ]
    /\ previous_reasoning =
          Observation(PastStep.thought, PastStep.action, PastRecord.result)
    /\ best_answer = None
    /\ best_score = 0
    /\ iteration = PastIterations
    /\ reasoning_result = PastStep
    /\ pc = "running"
    /\ result = NoResult
    /\ calls = [ reason |-> PastIterations, expand |-> 0,
                 execute |-> PastIterations, validate |-> 0 ]
    /\ ConcInit
    /\ search_k = PastRecord.k
    /\ CompInit

\* The path is not empty, so the return at line 211 cannot raise.
LateNext ==
    \/ IterReretrieval
    \/ IterReretrievalRaises
    \/ IterReplan
    \/ IterAnswerSuccess
    \/ IterAnswer
    \/ IterOther
    \/ LoopExhausted

SpecLate == InitLate /\ [][LateNext]_vars

(***************************************************************************)
(* Two loop invocations on the agent RAGSystem builds once: both reach the  *)
(* same ActionExecutor and the same BaseRetriever.  retrieve() is two steps *)
(* of the calling thread: it stores the requested count in                  *)
(* retriever.search_kwargs["k"] (line 121), and the later invoke (line 136) *)
(* reads that field.  A request is a search (top_k None) or the re-         *)
(* retrieval gate's expand over an evidence list of some length.            *)
(***************************************************************************)
ConcRequests ==
    { [ kind |-> "search", n |-> 0 ] } \cup [ kind : {"expand"}, n : 0..2 ]

RequestedCount(req) ==
    IF req.kind = "search"
    THEN retrieve(NoKey, [raises |-> FALSE, docs |-> <<>>]).k
    ELSE expand_retrieval(TRUE, IF req.n > 0 THEN req.n ELSE DefaultOriginalTopK,
                          ExpansionFactor, [raises |-> FALSE, docs |-> <<>>]).k

\* retrieve() lines 116-121
RetrieveSetK(p) ==
    /\ cpc[p] = "idle"
    /\ ccalls[p] < MaxCalls
    /\ \E req \in ConcRequests :
         /\ creq' = [creq EXCEPT ![p] = RequestedCount(req)]
         /\ search_k' = RequestedCount(req)
    /\ cpc' = [cpc EXCEPT ![p] = "set"]
    /\ ccalls' = [ccalls EXCEPT ![p] = @ + 1]
    /\ UNCHANGED << loop_vars, cused, comp_vars >>

\* retrieve() line 136: the retriever searches with the k it holds now
RetrieveInvoke(p) ==
    /\ cpc[p] = "set"
    /\ cused' = [cused EXCEPT ![p] = search_k]
    /\ cpc' = [cpc EXCEPT ![p] = "idle"]
    /\ UNCHANGED << loop_vars, search_k, creq, ccalls, comp_vars >>

ConcNext == \E p \in Procs : RetrieveSetK(p) \/ RetrieveInvoke(p)

\* The agent in its default configuration, no iteration run yet.
DefaultLoopInit ==
    /\ LoopInit
    /\ cfg.max_iterations = MaxIterations
    /\ cfg.enable_reretrieval /\ cfg.enable_replanning
    /\ cfg.initial_context = <<>>
    /\ ConcInit
    /\ search_k = RetrievalTopK

\* Both invocations are at their first iteration; the default configuration.
InitConc == DefaultLoopInit /\ CompInit

SpecConc == InitConc /\ [][ConcNext]_vars

(***************************************************************************)
(* MultilevelIndex.retrieve (src/src/indexing/multilevel_index.py).  Each   *)
(* of the three levels has a vector store or None and an "enabled" flag;    *)
(* for one call, each store's similarity_search either raises or returns a  *)
(* list of documents.                                                       *)
(***************************************************************************)
MaxTargetCount == 2     \* top_k of a retrieve call ranges over 0..MaxTargetCount

dA2 == [source |-> "docA", chunk_index |-> 2, content |-> "c4"]

LevelResults == { <<>>, <<dA1>>, <<dA1b, dB>>, <<dB, dA2>> }
LevelOutcomes ==
    { [raises |-> TRUE, docs |-> <<>>] } \cup [ raises : {FALSE}, docs : LevelResults ]

\* levelN_store is None, or the level is switched off, or it is searched
Levels == 
    { [store |-> FALSE, enabled |-> TRUE], [store |-> TRUE, enabled |-> FALSE],
      [store |-> TRUE, enabled |-> TRUE] }
Indexes == [ level1 : Levels, level2 : Levels, level3 : Levels ]

\* top_k None takes config.retrieval.top_k
RetrieveCalls ==
    [ top_k : {NoKey} \cup 0..MaxTargetCount,
      level1 : LevelOutcomes, level2 : LevelOutcomes, level3 : LevelOutcomes ]

\* if self.levelN_store and self.multilevel_config.levelN.get("enabled", True)
LevelSearched(level) == level.store /\ level.enabled

\* f"{source}_{chunk_index}", the same key as the agent's
_get_doc_id(doc) == DocId(doc)

\* for doc in levelN_docs: append when doc_id not in seen_ids (seen_ids holds
\* the ids of all_documents)
RECURSIVE AppendUnseen(_, _, _)
AppendUnseen(all_documents, level_docs, i) ==
    IF i > Len(level_docs) THEN all_documents
    ELSE IF \E j \in 1..Len(all_documents) :
                _get_doc_id(all_documents[j]) = _get_doc_id(level_docs[i])
         THEN AppendUnseen(all_documents, level_docs, i + 1)
         ELSE AppendUnseen(Append(all_documents, level_docs[i]), level_docs, i + 1)

Prefix(seq, n) == SubSeq(seq, 1, IF n < Len(seq) THEN n ELSE Len(seq))

\* The whole of retrieve: level 1 is searched (its result only feeds
\* level1_sources and the log), levels 2 and 3 are searched and appended;
\* no call is guarded, so the first searched level that raises ends retrieve.
MultilevelIndex_retrieve(index, call) ==
    LET top_k == IF call.top_k = NoKey THEN RetrievalTopK ELSE call.top_k
        raises == \/ LevelSearched(index.level1) /\ call.level1.raises
                  \/ LevelSearched(index.level2) /\ call.level2.raises
                  \/ LevelSearched(index.level3) /\ call.level3.raises
        after_level2 == IF LevelSearched(index.level2)
                        THEN AppendUnseen(<<>>, call.level2.docs, 1) ELSE <<>>
        after_level3 == IF LevelSearched(index.level3)
                        THEN AppendUnseen(after_level2, call.level3.docs, 1)
                        ELSE after_level2
    IN  [ raises |-> raises,
          final_docs |-> IF raises THEN <<>> ELSE Prefix(after_level3, top_k) ]

MultilevelRetrieve ==
    /\ ml_ret.pc = "idle"
    /\ ~MultilevelIndex_retrieve(ml_index, ml_call).raises
    /\ ml_ret' = [ pc |-> "returned",
                   final_docs |-> MultilevelIndex_retrieve(ml_index, ml_call).final_docs ]
    /\ UNCHANGED << loop_vars, search_k, conc_vars, ml_index, ml_call,
                    rr_vars, qr_vars, re_vars, ex_vars, sq_vars, rw_vars >>

MultilevelRetrieveRaises ==
    /\ ml_ret.pc = "idle"
    /\ MultilevelIndex_retrieve(ml_index, ml_call).raises
    /\ ml_ret' = [ pc |-> "raised", final_docs |-> <<>> ]
    /\ UNCHANGED << loop_vars, search_k, conc_vars, ml_index, ml_call,
                    rr_vars, qr_vars, re_vars, ex_vars, sq_vars, rw_vars >>

MergerNext == MultilevelRetrieve \/ MultilevelRetrieveRaises

InitMerger ==
    /\ DefaultLoopInit
    /\ ml_index \in Indexes
    /\ ml_call \in RetrieveCalls
    /\ ml_ret = NoCall
    /\ RerankIdle /\ RouterIdle
    /\ ReasoningIdle /\ ExecutorIdle /\ QueryIdle /\ RewriteIdle

SpecMerger == InitMerger /\ [][MergerNext]_vars

(***************************************************************************)
(* Reranker.rerank (src/src/core/reranker.py).  The oracle's response is a  *)
(* text, kept as its sequence of characters; re.findall(r'\d+', ...) takes  *)
(* the maximal runs of digits and int() reads each run in base ten.         *)
(***************************************************************************)
MaxCandidates == 3      \* len(documents) and top_n range over 0..MaxCandidates
MaxResponseLen == 4     \* characters of an oracle response

CandidateDocs == << dA1, dB, dA2, dA1b, [source |-> "docC", chunk_index |-> 3, content |-> "c5"] >>
Candidates == { SubSeq(CandidateDocs, 1, n) : n \in 0..MaxCandidates }

Digits == << "0", "1", "2" >>
ResponseChars == { "0", "1", "2", "," }
RECURSIVE Texts(_)
Texts(n) ==
    IF n = 0 THEN { <<>> }
    ELSE Texts(n - 1) \cup { Append(t, c) : t \in { u \in Texts(n - 1) : Len(u) = n - 1 },
                                            c \in ResponseChars }
RerankOutcomes ==
    { [raises |-> TRUE, text |-> <<>>] } \cup [ raises : {FALSE}, text : Texts(MaxResponseLen) ]

RerankCalls ==
    [ documents : Candidates, top_n : 0..MaxCandidates, oracle : RerankOutcomes ]

IsDigit(c) == \E d \in 1..Len(Digits) : Digits[d] = c
DigitValue(c) == (CHOOSE d \in 1..Len(Digits) : Digits[d] = c) - 1

\* re.findall(r'\d+', result_text): the maximal digit runs, left to right
RECURSIVE FindAllDigitRuns(_, _, _, _)
FindAllDigitRuns(result_text, i, run, found) ==
    IF i > Len(result_text)
    THEN IF run # <<>> THEN Append(found, run) ELSE found
    ELSE IF IsDigit(result_text[i])
         THEN FindAllDigitRuns(result_text, i + 1, Append(run, result_text[i]), found)
         ELSE FindAllDigitRuns(result_text, i + 1, <<>>,
                               IF run # <<>> THEN Append(found, run) ELSE found)

\* int(i) of a digit run
RECURSIVE ParseInt(_)
ParseInt(run) ==
    IF run = <<>> THEN 0
    ELSE 10 * ParseInt(SubSeq(run, 1, Len(run) - 1)) + DigitValue(run[Len(run)])

\* list(range(max_index))
Range(max_index) == [ i \in 1..max_index |-> i - 1 ]

InSeq(x, seq) == \E j \in 1..Len(seq) : seq[j] = x

\* mutant: duplicates of the response are kept
UniqueIndices_keep_all(indices, i, unique_indices) == indices

\* lines 108-113: drop repeats, keep the first occurrence
RECURSIVE UniqueIndices(_, _, _)
UniqueIndices(indices, i, unique_indices) ==
    IF i > Len(indices) THEN unique_indices
    ELSE IF InSeq(indices[i], unique_indices)
         THEN UniqueIndices(indices, i + 1, unique_indices)
         ELSE UniqueIndices(indices, i + 1, Append(unique_indices, indices[i]))

\* mutant: the missing indices are appended from the highest down
RECURSIVE AppendMissing_descending(_, _, _)
AppendMissing_descending(unique_indices, i, max_index) ==
    IF i >= max_index THEN unique_indices
    ELSE IF InSeq(max_index - 1 - i, unique_indices)
         THEN AppendMissing_descending(unique_indices, i + 1, max_index)
         ELSE AppendMissing_descending(Append(unique_indices, max_index - 1 - i),
                                       i + 1, max_index)

\* lines 120-122: for i in range(max_index): append i when not yet present
RECURSIVE AppendMissing(_, _, _)
AppendMissing(unique_indices, i, max_index) ==
    IF i >= max_index THEN unique_indices
    ELSE IF InSeq(i, unique_indices)
         THEN AppendMissing(unique_indices, i + 1, max_index)
         ELSE AppendMissing(Append(unique_indices, i), i + 1, max_index)

_parse_rerank_result(result_text, max_index) ==
    LET runs == FindAllDigitRuns(result_text, 1, <<>>, <<>>)
        ints == [ r \in 1..Len(runs) |-> ParseInt(runs[r]) ]
        indices == SelectSeq(ints, LAMBDA v : v < max_index)
        unique_indices == UniqueIndices(indices, 1, <<>>)
    IN  IF unique_indices = <<>> THEN Range(max_index)
        ELSE Prefix(AppendMissing(unique_indices, 0, max_index), max_index)

\* mutant: a list as long as top_n is sent to the oracle as well
ReturnedAsIs_shorter_only(documents, top_n) == Len(documents) < top_n

\* lines 49-54: not documents, or len(documents) <= top_n
ReturnedAsIs(documents, top_n) == documents = <<>> \/ Len(documents) <= top_n

\* The whole of rerank: the returned list, the ordering it was built from,
\* and the number of oracle calls issued.
rerank(documents, top_n, oracle) ==
    IF ReturnedAsIs(documents, top_n)
    THEN [ docs |-> documents, reranked_indices |-> <<>>, oracle_calls |-> 0 ]
    ELSE IF oracle.raises
    THEN [ docs |-> Prefix(documents, top_n), reranked_indices |-> <<>>, oracle_calls |-> 1 ]
    ELSE LET reranked_indices == _parse_rerank_result(oracle.text, Len(documents))
             kept == SelectSeq(Prefix(reranked_indices, top_n),
                               LAMBDA i : i < Len(documents))
         IN  [ docs |-> [ j \in 1..Len(kept) |-> documents[kept[j] + 1] ],
               reranked_indices |-> reranked_indices, oracle_calls |-> 1 ]

RerankReturn(path) ==
    LET r == rerank(rr_call.documents, rr_call.top_n, rr_call.oracle) IN
    /\ rr_ret' = [ pc |-> "returned", path |-> path, docs |-> r.docs,
                   reranked_indices |-> r.reranked_indices,
                   oracle_calls |-> r.oracle_calls ]
    /\ UNCHANGED << loop_vars, search_k, conc_vars, ml_vars, rr_call,
                    qr_vars, re_vars, ex_vars, sq_vars, rw_vars >>

\* lines 49-54
RerankAsIs ==
    /\ rr_ret.pc = "idle"
    /\ ReturnedAsIs(rr_call.documents, rr_call.top_n)
    /\ RerankReturn("as is")

\* lines 56-71
RerankByOracle ==
    /\ rr_ret.pc = "idle"
    /\ ~ReturnedAsIs(rr_call.documents, rr_call.top_n)
    /\ ~rr_call.oracle.raises
    /\ RerankReturn("reranked")

\* lines 73-75
RerankOracleFailed ==
    /\ rr_ret.pc = "idle"
    /\ ~ReturnedAsIs(rr_call.documents, rr_call.top_n)
    /\ rr_call.oracle.raises
    /\ RerankReturn("fallback")

RerankNext == RerankAsIs \/ RerankByOracle \/ RerankOracleFailed

InitRerank ==
    /\ DefaultLoopInit
    /\ MergerIdle
    /\ rr_call \in RerankCalls
    /\ rr_ret = NoCall
    /\ RouterIdle
    /\ ReasoningIdle /\ ExecutorIdle /\ QueryIdle /\ RewriteIdle

SpecRerank == InitRerank /\ [][RerankNext]_vars

(***************************************************************************)
(* IntentClassifier.classify (src/src/query/intent_classifier.py) and       *)
(* QueryRouter.route (src/src/query/query_router.py).  The classification   *)
(* oracle raises, or answers with a JSON object, with JSON that is not an   *)
(* object, or with a text that json.loads rejects; such a text is kept as   *)
(* the set of keywords it contains (lower-cased).                           *)
(***************************************************************************)
MaxBaseCount == 3           \* config.retrieval.top_k ranges over 1..MaxBaseCount and 5

DisabledConfidence == 10    \* classify: 1.0 when classification is switched off
ClassifyFailedConfidence == 5   \* classify: 0.5 in the except branch
JsonDefaultConfidence == 5  \* result.get("confidence", 0.5)
TextMatchConfidence == 7    \* 0.7 after text matching
ComplexTopKFactor == 2      \* top_k * 2 for complex_reasoning
ToolCallTopK == 3           \* "top_k": 3 for tool_call

\* QueryIntent values
FACTUAL == "factual"
COMPLEX_REASONING == "complex_reasoning"
TOOL_CALL == "tool_call"
CONVERSATIONAL == "conversational"
UNKNOWN == "unknown"
QueryIntent == { FACTUAL, COMPLEX_REASONING, TOOL_CALL, CONVERSATIONAL, UNKNOWN }

Keywords == { "factual", "complex", "reasoning", "tool", "conversational" }

\* "intent" of a JSON object: absent, a QueryIntent value, or another string;
\* "confidence": absent, a number, or (confidence_text) a word such as "high"
JsonIntents == { Absent, "tool_required" } \cup QueryIntent
ClassifyResponses ==
    { [ kind |-> "error" ], [ kind |-> "json_other" ] }
    \cup [ kind : {"object"}, intent : JsonIntents, confidence : {NoKey, 3, 9},
           confidence_text : {FALSE} ]
    \cup [ kind : {"object"}, intent : JsonIntents, confidence : {NoKey},
           confidence_text : {TRUE} ]
    \cup [ kind : {"text"}, keywords : SUBSET Keywords ]

RouteCalls ==
    [ enable_intent_classification : BOOLEAN,
      oracle : ClassifyResponses,
      top_k : {RetrievalTopK} \cup 1..MaxBaseCount,
      has_rag_chain : BOOLEAN ]

\* lines 148-158: the first matching branch decides
TextMatch(keywords) ==
    IF "factual" \in keywords THEN FACTUAL
    ELSE IF "complex" \in keywords \/ "reasoning" \in keywords THEN COMPLEX_REASONING
    ELSE IF "tool" \in keywords THEN TOOL_CALL
    ELSE IF "conversational" \in keywords THEN CONVERSATIONAL
    ELSE UNKNOWN

\* _parse_classification_result: json.loads succeeded on an object, or
\* raised JSONDecodeError ("text").  raises: an exception other than
\* JSONDecodeError leaves the method (float() of a word, .get on a non-dict).
_parse_classification_result(content) ==
    IF content.kind = "object"
    THEN LET intent_str == IF content.intent = Absent THEN "factual" ELSE content.intent
         IN  [ raises |-> content.confidence_text,
               intent |-> IF intent_str \in QueryIntent THEN intent_str ELSE UNKNOWN,
               confidence |-> IF content.confidence = NoKey THEN JsonDefaultConfidence
                              ELSE content.confidence ]
    ELSE IF content.kind = "json_other"
    THEN [ raises |-> TRUE, intent |-> UNKNOWN, confidence |-> NoKey ]
    ELSE [ raises |-> FALSE, intent |-> TextMatch(content.keywords),
           confidence |-> TextMatchConfidence ]

\* classify: every exception of the oracle call or of the parsing is caught
classify(enable_intent_classification, oracle) ==
    IF ~enable_intent_classification
    THEN [ intent |-> FACTUAL, confidence |-> DisabledConfidence ]
    ELSE IF oracle.kind = "error" \/ _parse_classification_result(oracle).raises
    THEN [ intent |-> FACTUAL, confidence |-> ClassifyFailedConfidence ]
    ELSE [ intent |-> _parse_classification_result(oracle).intent,
           confidence |-> _parse_classification_result(oracle).confidence ]

\* the dicts _determine_strategy returns, branch by branch
FactualStrategy(top_k) ==
    [ use_multilevel_index |-> TRUE, use_rerank |-> TRUE, top_k |-> top_k,
      use_agent |-> FALSE ]
ComplexStrategy(top_k, max_iterations) ==
    [ use_multilevel_index |-> TRUE, use_rerank |-> TRUE,
      top_k |-> top_k * ComplexTopKFactor, use_agent |-> TRUE,
      max_iterations |-> max_iterations ]
ToolCallStrategy ==
    [ use_multilevel_index |-> FALSE, use_rerank |-> FALSE, top_k |-> ToolCallTopK,
      use_agent |-> TRUE, enable_tools |-> TRUE ]
ConversationalStrategy(top_k) ==
    [ use_multilevel_index |-> TRUE, use_rerank |-> TRUE, top_k |-> top_k,
      use_agent |-> FALSE, use_memory |-> TRUE ]

\* mutant: a classification below 0.5 is routed as a factual query
_determine_strategy_unsure_is_factual(intent, confidence, top_k, max_iterations) ==
    IF confidence < ClassifyFailedConfidence \/ intent = FACTUAL THEN FactualStrategy(top_k)
    ELSE IF intent = COMPLEX_REASONING THEN ComplexStrategy(top_k, max_iterations)
    ELSE IF intent = TOOL_CALL THEN ToolCallStrategy
    ELSE IF intent = CONVERSATIONAL THEN ConversationalStrategy(top_k)
    ELSE FactualStrategy(top_k)

\* _determine_strategy(intent, confidence) under config.retrieval.top_k and
\* config.agent.max_iterations
_determine_strategy(intent, confidence, top_k, max_iterations) ==
    IF intent = FACTUAL THEN FactualStrategy(top_k)
    ELSE IF intent = COMPLEX_REASONING THEN ComplexStrategy(top_k, max_iterations)
    ELSE IF intent = TOOL_CALL THEN ToolCallStrategy
    ELSE IF intent = CONVERSATIONAL THEN ConversationalStrategy(top_k)
    ELSE FactualStrategy(top_k)

\* route lines 57-63
Routed(call) ==
    LET intent_result == classify(call.enable_intent_classification, call.oracle) IN
    [ intent |-> intent_result.intent,
      confidence |-> intent_result.confidence,
      strategy |-> _determine_strategy(intent_result.intent, intent_result.confidence,
                                       call.top_k, cfg.max_iterations) ]

Route ==
    /\ qr_ret.pc = "idle"
    /\ qr_call.has_rag_chain
    /\ qr_ret' = [ pc |-> "routed", intent |-> Routed(qr_call).intent,
                   confidence |-> Routed(qr_call).confidence,
                   strategy |-> Routed(qr_call).strategy ]
    /\ UNCHANGED << loop_vars, search_k, conc_vars, ml_vars, rr_vars, qr_call,
                    re_vars, ex_vars, sq_vars, rw_vars >>

\* route lines 66-68: neither rag_chain nor basic_rag is given
RouteWithoutChain ==
    /\ qr_ret.pc = "idle"
    /\ ~qr_call.has_rag_chain
    /\ qr_ret' = [ pc |-> "raised" ]
    /\ UNCHANGED << loop_vars, search_k, conc_vars, ml_vars, rr_vars, qr_call,
                    re_vars, ex_vars, sq_vars, rw_vars >>

RouterNext == Route \/ RouteWithoutChain

InitRouter ==
    /\ DefaultLoopInit
    /\ MergerIdle /\ RerankIdle
    /\ qr_call \in RouteCalls
    /\ qr_ret = NoCall
    /\ ReasoningIdle /\ ExecutorIdle /\ QueryIdle /\ RewriteIdle

SpecRouter == InitRouter /\ [][RouterNext]_vars

(***************************************************************************)
(* ReasoningEngine.reason and validate_answer on the oracle's raw text      *)
(* (src/src/agent/reasoning.py).  A reasoning text is kept as what the      *)
(* labelled-section searches can find in it; its confidence part is either  *)
(* a labelled number (in tenths: 800 is "80"), a labelled run of digits and *)
(* dots that float() rejects, or no label and a set of hedging keywords.    *)
(* A validation text is kept as its JSON body (the inside of the code       *)
(* fence when there is one) and where the inconsistency marker occurs.      *)
(***************************************************************************)
UncertainConfidence == 3    \* extract_confidence: 0.3 on "uncertain" words
MaybeConfidence == 5        \* 0.5 on "maybe" words
CertainConfidence == 9      \* 0.9 on "certain" words
PlainConfidence == 7        \* 0.7 otherwise
JsonDefaultScore == 7       \* result.get("score", 0.7)

HedgeWords == { "uncertain", "maybe", "sure" }
ConfidenceTexts ==
    [ kind : {"labelled"}, value : {3, 8, 800, 1500}, words : {{}} ]
    \cup { [ kind |-> "malformed", value |-> 0, words |-> {} ] }
    \cup [ kind : {"unlabelled"}, value : {0}, words : SUBSET HedgeWords ]

ReasonTexts ==
    [ thought : {Absent, "t1"},
      action : {Absent, "search", "answer", "tool_call", "other"},
      action_input : {Absent, "x"},
      confidence : ConfidenceTexts ]

\* extract_confidence: a labelled number above 1 is taken as a percentage,
\* the value is clamped to [0,1]; float() raises on a malformed number
extract_confidence(ctext) ==
    IF ctext.kind = "malformed" THEN [ raises |-> TRUE, value |-> 0 ]
    ELSE IF ctext.kind = "labelled"
    THEN LET value == IF ctext.value > 10 THEN ctext.value \div 100 ELSE ctext.value
         IN  [ raises |-> FALSE,
               value |-> IF value > 10 THEN 10 ELSE IF value < 0 THEN 0 ELSE value ]
    ELSE [ raises |-> FALSE,
           value |-> IF "uncertain" \in ctext.words THEN UncertainConfidence
                     ELSE IF "maybe" \in ctext.words THEN MaybeConfidence
                     ELSE IF "sure" \in ctext.words THEN CertainConfidence
                     ELSE PlainConfidence ]

\* What reason() gets out of the oracle: an exception (of the call, or of
\* float() while parsing) or the labelled fields with their defaults.
ReadReasoningText(oracle) ==
    IF oracle.raises \/ extract_confidence(oracle.text.confidence).raises
    THEN [ fail |-> TRUE, thought |-> "", action |-> "", action_input |-> "",
           confidence |-> 0 ]
    ELSE [ fail |-> FALSE,
           thought |-> IF oracle.text.thought = Absent THEN "" ELSE oracle.text.thought,
           action |-> oracle.text.action,
           action_input |-> IF oracle.text.action_input = Absent THEN ""
                            ELSE oracle.text.action_input,
           confidence |-> extract_confidence(oracle.text.confidence).value ]

ReasonOutcomes ==
    { [ raises |-> TRUE, text |-> Absent ] } \cup [ raises : {FALSE}, text : ReasonTexts ]

\* The body json.loads is given: an object with its "consistent" and "score"
\* fields (Absent / NoKey when missing), other JSON, or no JSON at all.
ValidationBodies ==
    [ kind : {"object"}, consistent : {Absent, "true", "false"}, score : {NoKey, 3, 15} ]
    \cup [ kind : {"not_object", "invalid"}, consistent : {Absent}, score : {NoKey} ]

\* fenced: the body is inside a code fence; marker_outside / marker_inside:
\* the inconsistency marker occurs outside / inside the extracted content
ValidationTexts ==
    [ fenced : {FALSE}, marker_outside : {FALSE}, marker_inside : BOOLEAN,
      body : ValidationBodies ]
    \cup [ fenced : {TRUE}, marker_outside : BOOLEAN, marker_inside : BOOLEAN,
           body : ValidationBodies ]

ValidateOutcomes ==
    { [ raises |-> TRUE, text |-> Absent ] } \cup [ raises : {FALSE}, text : ValidationTexts ]

\* lines 252-260 keep the inside of the fence only; lines 262-280 then read
\* the JSON object or look for the marker in that content
ReadValidationText(oracle) ==
    IF oracle.raises THEN [ kind |-> "error", consistent |-> TRUE, score |-> 0 ]
    ELSE IF oracle.text.body.kind = "object"
    THEN [ kind |-> "json",
           consistent |-> oracle.text.body.consistent # "false",
           score |-> IF oracle.text.body.score = NoKey THEN JsonDefaultScore
                     ELSE oracle.text.body.score ]
    ELSE [ kind |-> "text", consistent |-> ~oracle.text.marker_inside, score |-> 0 ]

ReasoningCalls ==
    [ method : {"reason"}, oracle : ReasonOutcomes ]
    \cup [ method : {"validate_answer"}, oracle : ValidateOutcomes ]

Reason ==
    /\ re_ret.pc = "idle"
    /\ re_call.method = "reason"
    /\ re_ret' = [ pc |-> "returned", step |-> reason(ReadReasoningText(re_call.oracle)) ]
    /\ UNCHANGED << loop_vars, search_k, conc_vars, ml_vars, rr_vars, qr_vars,
                    re_call, ex_vars, sq_vars, rw_vars >>

ValidateAnswer ==
    /\ re_ret.pc = "idle"
    /\ re_call.method = "validate_answer"
    /\ re_ret' = [ pc |-> "returned",
                   validation |-> validate_answer(ReadValidationText(re_call.oracle)) ]
    /\ UNCHANGED << loop_vars, search_k, conc_vars, ml_vars, rr_vars, qr_vars,
                    re_call, ex_vars, sq_vars, rw_vars >>

ReasoningNext == Reason \/ ValidateAnswer

InitReasoning ==
    /\ DefaultLoopInit
    /\ MergerIdle /\ RerankIdle /\ RouterIdle
    /\ re_call \in ReasoningCalls
    /\ re_ret = NoCall
    /\ ExecutorIdle /\ QueryIdle /\ RewriteIdle

SpecReasoning == InitReasoning /\ [][ReasoningNext]_vars

(***************************************************************************)
(* ActionExecutor.execute called on its own                                 *)
(* (src/src/agent/action_executor.py), over every wiring of the executor    *)
(* (each collaborator given or None) and every action value.                *)
(***************************************************************************)
AllWirings == [ retriever : BOOLEAN, generator : BOOLEAN, tools : BOOLEAN ]

ExecuteCalls ==
    [ wiring : AllWirings,
      action : { "search", "answer", "tool_call", "other" },
      action_input : { "", "x" },
      context : { <<>>, <<dA1>> },
      provider : ProviderOutcomes, gen : GeneratorOutcomes, tool : ToolOutcomes ]

\* The collaborators execute reaches for a call: the retriever in a search,
\* the generator in an answer without answer input, the registry in a tool call.
CollaboratorsCalled(call) ==
    { c \in { "retriever", "generator", "tools" } :
        \/ c = "retriever" /\ call.action = "search" /\ call.wiring.retriever
        \/ c = "generator" /\ call.action = "answer" /\ call.wiring.generator
                           /\ call.action_input = ""
        \/ c = "tools" /\ call.action = "tool_call" /\ call.wiring.tools }

Executed(call) ==
    execute(call.wiring, call.action, call.action_input, call.context,
            call.provider, call.gen, call.tool)

ExecuteReturn ==
    /\ ex_ret.pc = "idle"
    /\ ex_ret' = [ pc |-> "returned", record |-> Executed(ex_call),
                   called |-> CollaboratorsCalled(ex_call) ]
    /\ UNCHANGED << loop_vars, search_k, conc_vars, ml_vars, rr_vars, qr_vars,
                    re_vars, ex_call, sq_vars, rw_vars >>

\* lines 59-64: one of the three known actions
ExecuteKnown ==
    /\ ex_call.action \in { "search", "answer", "tool_call" }
    /\ ExecuteReturn

\* lines 65-71
ExecuteUnknown ==
    /\ ex_call.action \notin { "search", "answer", "tool_call" }
    /\ ExecuteReturn

ExecutorNext == ExecuteKnown \/ ExecuteUnknown

InitExecutor ==
    /\ DefaultLoopInit
    /\ MergerIdle /\ RerankIdle /\ RouterIdle /\ ReasoningIdle
    /\ ex_call \in ExecuteCalls
    /\ ex_ret = NoCall
    /\ QueryIdle /\ RewriteIdle

SpecExecutor == InitExecutor /\ [][ExecutorNext]_vars

(***************************************************************************)
(* Single-pass query.  RAGSystem.query on the branch that does not use the  *)
(* agent calls RAGChain.query with return_sources = True and wraps a plain  *)
(* string result; RAGChain.query itself accepts either setting.  The        *)
(* outcome of each external call (provider, tool, generator) is an input.   *)
(***************************************************************************)
NotFoundAnswer == "not_found"       \* the literal of rag_chain.py line 81
NoAnswerTexts == { NotFoundAnswer, "dont_know" }
toolDoc == [source |-> "tool:bing_search", chunk_index |-> NoKey, content |-> "t1"]

QueryGeneratorOutcomes ==
    { [raises |-> TRUE, text |-> ""] } \cup [ raises : {FALSE}, text : { "a2", "dont_know" } ]
TryToolOutcomes == { [found |-> FALSE, doc |-> toolDoc], [found |-> TRUE, doc |-> toolDoc] }

QueryCalls ==
    [ provider : { p \in ProviderOutcomes : p.docs \in { <<>>, <<dA1>> } },
      registry : BOOLEAN,
      enable_tool_fallback : BOOLEAN,
      allow_general_knowledge : BOOLEAN,
      return_sources : { TRUE },
      tool1 : TryToolOutcomes, tool2 : TryToolOutcomes,
      gen1 : QueryGeneratorOutcomes, gen2 : QueryGeneratorOutcomes ]

\* RAGChain._try_tool_call: None without a registry, when no tool is selected
\* or when the tool raises; otherwise the tool's result as a document.
_try_tool_call(registry, tool) ==
    IF registry THEN tool ELSE [found |-> FALSE, doc |-> toolDoc]

\* AnswerGenerator.generate_with_metadata / generate, as RAGChain.query picks
Generated(return_sources, documents, gen) ==
    IF return_sources
    THEN [ kind |-> "dict", answer |-> gen.text, sources |-> Sources(documents) ]
    ELSE [ kind |-> "str", answer |-> gen.text, sources |-> <<>> ]

_should_use_tool(query_result, documents) ==
    query_result.answer \in NoAnswerTexts \/ Len(documents) = 0

QueryRaised(n) ==
    [ raises |-> TRUE, generator_calls |-> n,
      result |-> [ kind |-> "str", answer |-> "", sources |-> <<>> ] ]
QueryReturned(n, query_result) ==
    [ raises |-> FALSE, generator_calls |-> n, result |-> query_result ]

RAGChain_query(call) ==
    LET fallback == call.enable_tool_fallback /\ call.registry
        first == _try_tool_call(call.registry, call.tool1)
        second == _try_tool_call(call.registry, call.tool2)
        retrieved == call.provider.docs
    IN  IF call.provider.raises THEN QueryRaised(0)
        ELSE IF retrieved = <<>> /\ fallback /\ ~first.found
                /\ ~call.allow_general_knowledge
        THEN QueryReturned(0, [ kind |-> "str", answer |-> NotFoundAnswer,
                                sources |-> <<>> ])
        ELSE
        LET documents == IF retrieved = <<>> /\ fallback /\ first.found
                         THEN << first.doc >> ELSE retrieved
        IN  IF call.gen1.raises THEN QueryRaised(1)
            ELSE
            LET generated == Generated(call.return_sources, documents, call.gen1)
            IN  IF fallback /\ _should_use_tool(generated, documents) /\ second.found
                THEN IF call.gen2.raises THEN QueryRaised(2)
                     ELSE QueryReturned(2, Generated(call.return_sources,
                                           Append(documents, second.doc), call.gen2))
                ELSE QueryReturned(1, generated)

\* RAGSystem.query, lines 125-156: a string result becomes a record without
\* sources; the reply carries the answer and the sources.
RAGSystem_query(call) ==
    LET r == RAGChain_query(call)
    IN  IF r.raises THEN [ pc |-> "raised", generator_calls |-> r.generator_calls ]
        ELSE [ pc |-> "returned", answer |-> r.result.answer,
               sources |-> IF r.result.kind = "str" THEN <<>> ELSE r.result.sources,
               generator_calls |-> r.generator_calls ]

QueryStep ==
    /\ sq_ret.pc = "idle"
    /\ sq_ret' = RAGSystem_query(sq_call)
    /\ UNCHANGED << loop_vars, search_k, conc_vars, ml_vars, rr_vars, qr_vars,
                    re_vars, ex_vars, sq_call, rw_vars >>

\* line 81: the early return before any generation
QueryNotFound ==
    /\ ~RAGChain_query(sq_call).raises
    /\ RAGChain_query(sq_call).generator_calls = 0
    /\ QueryStep

\* lines 83-114
QueryGenerated ==
    /\ ~RAGChain_query(sq_call).raises
    /\ RAGChain_query(sq_call).generator_calls > 0
    /\ QueryStep

\* line 67 and generator.py line 136: provider and generator failures propagate
QueryRaises ==
    /\ RAGChain_query(sq_call).raises
    /\ QueryStep

QueryNext == QueryNotFound \/ QueryGenerated \/ QueryRaises

InitQuery ==
    /\ DefaultLoopInit
    /\ MergerIdle /\ RerankIdle /\ RouterIdle /\ ReasoningIdle /\ ExecutorIdle
    /\ sq_call \in QueryCalls
    /\ sq_ret = NoCall
    /\ RewriteIdle

SpecQuery == InitQuery /\ [][QueryNext]_vars

(***************************************************************************)
(* QueryRewriter.  A query is a sequence of words ("w") and whitespace      *)
(* (" "); an oracle response is a sequence of characters of which only      *)
(* whitespace and the two quote characters matter.                          *)
(***************************************************************************)
MaxWords == 22
ExpandBelow == 5
SimplifyAbove == 20

RECURSIVE QueryOf(_, _)
QueryOf(n, pad) ==
    IF n = 0 THEN IF pad THEN << " " >> ELSE <<>>
    ELSE IF n = 1 THEN IF pad THEN << " ", "w", " " >> ELSE << "w" >>
    ELSE QueryOf(n - 1, pad) \o (IF pad THEN << " ", "w", " " >> ELSE << " ", "w" >>)
Queries == { QueryOf(n, pad) : n \in 0..MaxWords, pad \in BOOLEAN }

RewriteResponses ==
    { << "r" >>, << " ", "\"", "r", "\"", " " >>, << "'", "r", "'" >>,
      << "\"", "'", "r", "'", "\"" >> }
RewriteOutcomes ==
    { [raises |-> TRUE, text |-> <<>>] } \cup [ raises : {FALSE}, text : RewriteResponses ]
RewriteCalls ==
    [ enable_rewrite : BOOLEAN, query : Queries,
      mode : { "auto", "expand", "simplify", "none" },
      oracle : RewriteOutcomes ]

\* str.split(): the maximal runs of non-whitespace
split(query) ==
    SelectSeq([ i \in 1..Len(query) |->
                  IF query[i] # " " /\ (i = 1 \/ query[i - 1] = " ")
                  THEN "w" ELSE " " ],
              LAMBDA c : c = "w")

\* str.strip(chars)
RECURSIVE strip(_, _)
strip(text, chars) ==
    IF text = <<>> THEN text
    ELSE IF text[1] \in chars THEN strip(Tail(text), chars)
    ELSE IF text[Len(text)] \in chars THEN strip(SubSeq(text, 1, Len(text) - 1), chars)
    ELSE text

_detect_query_complexity_inclusive(query) ==
    LET word_count == Len(split(query))
    IN  IF word_count <= ExpandBelow THEN "expand"
        ELSE IF word_count >= SimplifyAbove THEN "simplify"
        ELSE "auto"

_detect_query_complexity(query) ==
    LET word_count == Len(split(query))
    IN  IF word_count < ExpandBelow THEN "expand"
        ELSE IF word_count > SimplifyAbove THEN "simplify"
        ELSE "auto"

\* expand_query and simplify_query differ in the prompt only: one oracle call,
\* the response stripped of whitespace and quotes, the query on failure.
OracleRewrite(query, oracle) ==
    IF oracle.raises THEN query
    ELSE strip(strip(strip(oracle.text, { " " }), { "\"" }), { "'" })
expand_query(query, oracle) == OracleRewrite(query, oracle)
simplify_query(query, oracle) == OracleRewrite(query, oracle)

rewrite(call) ==
    IF ~call.enable_rewrite
    THEN [ mode |-> "disabled", oracle_calls |-> 0, query |-> call.query ]
    ELSE
    LET mode == IF call.mode = "auto" THEN _detect_query_complexity(call.query)
                ELSE call.mode
    IN  IF mode = "expand"
        THEN [ mode |-> mode, oracle_calls |-> 1,
               query |-> expand_query(call.query, call.oracle) ]
        ELSE IF mode = "simplify"
        THEN [ mode |-> mode, oracle_calls |-> 1,
               query |-> simplify_query(call.query, call.oracle) ]
        ELSE [ mode |-> mode, oracle_calls |-> 0, query |-> call.query ]

RewriteReturn ==
    /\ rw_ret.pc = "idle"
    /\ rw_ret' = [ pc |-> "returned", mode |-> rewrite(rw_call).mode,
                   oracle_calls |-> rewrite(rw_call).oracle_calls,
                   query |-> rewrite(rw_call).query ]
    /\ UNCHANGED << loop_vars, search_k, conc_vars, ml_vars, rr_vars, qr_vars,
                    re_vars, ex_vars, sq_vars, rw_call >>

\* lines 47-48
RewriteDisabled == ~rw_call.enable_rewrite /\ RewriteReturn
\* lines 54-55
RewriteExpand == rewrite(rw_call).mode = "expand" /\ RewriteReturn
\* lines 56-57
RewriteSimplify == rewrite(rw_call).mode = "simplify" /\ RewriteReturn
\* lines 58-59
RewriteUnchanged == rewrite(rw_call).mode \in { "auto", "none" } /\ RewriteReturn

RewriteNext == RewriteDisabled \/ RewriteExpand \/ RewriteSimplify \/ RewriteUnchanged

InitRewrite ==
    /\ DefaultLoopInit
    /\ MergerIdle /\ RerankIdle /\ RouterIdle /\ ReasoningIdle /\ ExecutorIdle
    /\ QueryIdle
    /\ rw_call \in RewriteCalls
    /\ rw_ret = NoCall

SpecRewrite == InitRewrite /\ [][RewriteNext]_vars

(***************************************************************************)
(* Claims.                                                                  *)
(***************************************************************************)
Returned == pc \in { "success", "exhausted" }

\* C1: at every iteration boundary and at return, whatever initial context
\* the caller supplied, the accumulated evidence holds no two items with the
\* same identity key source_chunk_index (stated for the boundaries after an
\* iteration has run, and for the return).
C1_EvidenceKeysDistinct ==
    (execution_path # <<>> \/ Returned) => NoDuplicateKeys(context)

\* C2: no failure of an external call escapes react_loop: the loop never
\* ends by an exception while an iteration is calling a collaborator (the
\* evidence provider's expand call included).
C2_ExternalFailuresAbsorbed == pc = "raised" => iteration >= cfg.max_iterations

\* C3: when the iteration budget is used up without early success, react_loop
\* returns; the answer is bestAnswer if one was recorded, else the last
\* execution step's result, else the no-answer placeholder; the confidence is
\* the last logged step's, 0.5 on an empty path (max_iterations = 0 included).
C3_ExhaustedReturn ==
    (pc # "running" /\ iteration >= cfg.max_iterations) =>
        /\ pc = "exhausted"
        /\ result.answer =
              IF best_answer # None THEN best_answer
              ELSE IF execution_path # <<>> THEN Last(execution_path).result
              ELSE NoAnswerText
        /\ result.confidence =
              IF execution_path # <<>> THEN Last(execution_path).confidence
              ELSE DefaultReturnConfidence

\* C9: react_loop never modifies the list the caller passed as initial
\* context: at return it holds exactly the items it held before the call.
C9_CallerContextUntouched == Returned => caller_context = cfg.initial_context

\* C10: for two invocations running concurrently on the same agent and
\* evidence provider, the result count the provider uses for an invocation's
\* search or expand call is the count that invocation requested.
C10_UsedCountIsRequested ==
    \A p \in Procs : (cpc[p] = "idle" /\ cused[p] # NoKey) => cused[p] = creq[p]

\* An execution-path entry of an answer that was executed and validated, the
\* re-planning gate not having fired (a re-planning entry logs no confidence).
ExecutedAnswer(e) == e.action = "answer" /\ e.confidence # NoKey

ReretrievalEntries ==
    { i \in 1..Len(execution_path) : execution_path[i].action = "reretrieval" }

ValidatedEntries ==
    { i \in 1..Len(execution_path) : execution_path[i].validation.score # NoKey }

\* C4: an executed answer validated with score >= 0.9 and consistent ends the
\* loop in its own iteration: it is the last entry of the execution path, the
\* loop has returned that answer with that step's confidence and that score,
\* and no reasoning, executor or validation call was issued after it.
C4_EarlySuccessTerminates ==
    \A i \in 1..Len(execution_path) :
        LET e == execution_path[i] IN
        (ExecutedAnswer(e) /\ e.validation.score >= EarlyReturnScore
                           /\ e.validation.consistent) =>
            /\ i = Len(execution_path)
            /\ pc = "success"
            /\ result.answer = e.result
            /\ result.confidence = e.confidence
            /\ result.score = e.validation.score
            /\ result.iterations = e.iteration
            /\ calls.reason = i
            /\ calls.execute + calls.expand = i
            /\ calls.validate = Cardinality(ValidatedEntries)

C4_Witness ==
    /\ pc = "success"
    /\ result.iterations < cfg.max_iterations
    /\ Last(execution_path).validation.score >= EarlyReturnScore
    /\ Last(execution_path).validation.consistent

\* C5: within one run bestScore never decreases from one iteration to the next.
C5_BestScoreMonotone == [][best_score' >= best_score]_vars

\* an answer scoring below the running best was executed after it
C5_Witness ==
    \E i \in 2..Len(execution_path) :
        /\ ExecutedAnswer(execution_path[i])
        /\ ExecutedAnswer(execution_path[i - 1])
        /\ execution_path[i].validation.score < execution_path[i - 1].validation.score
        /\ best_score = execution_path[i - 1].validation.score

PathInv ==
    /\ Len(execution_path) <= cfg.max_iterations
    /\ \A i \in 1..Len(execution_path) : execution_path[i].iteration = i
    /\ Returned =>
          /\ result.iterations = Len(execution_path)
          /\ calls.reason = Len(execution_path)
          /\ calls.execute + calls.expand = Len(execution_path)

PathAppendOnly ==
    /\ Len(execution_path') >= Len(execution_path)
    /\ SubSeq(execution_path', 1, Len(execution_path)) = execution_path

\* C6: at return the execution path has exactly one entry per iteration
\* executed, whatever the kind of iteration; its length is the returned
\* iterations count and at most max_iterations; the entries' iteration indices
\* are 1, 2, ...; and no entry is removed or reordered once appended.
C6_PathIsAuditTrail == PathInv /\ [][PathAppendOnly /\ PathInv']_vars

C6_Witness ==
    /\ pc = "exhausted"
    /\ Len(execution_path) = 2
    /\ execution_path[1].action = "reretrieval"
    /\ execution_path[2].action = "search"

\* The reasoning oracle raised in iteration 1, and iteration 1 is over.
OracleThrewOnFirst ==
    calls.reason = 1 /\ reasoning_result.thought = "reasoning failed"

C8_LastIterationExecutes ==
    /\ calls.expand <= IF cfg.max_iterations > 0 THEN cfg.max_iterations - 1 ELSE 0
    /\ pc = "raised" /\ calls.expand > 0 => iteration < cfg.max_iterations - 1
    /\ (execution_path # <<>> /\ Len(execution_path) = cfg.max_iterations) =>
          LET e == Last(execution_path) IN
          /\ e.action = reasoning_result.action
          /\ e.confidence = reasoning_result.confidence
          /\ e.result # ReplanMsg
          /\ calls.execute = Len(execution_path) - Cardinality(ReretrievalEntries)
          /\ Len(execution_path) \notin ReretrievalEntries
          /\ e.action = "answer" =>
                /\ e.validation.score # NoKey
                /\ best_score >= e.validation.score
                /\ best_answer # None
                /\ best_score = e.validation.score =>
                      \E i \in 1..Len(execution_path) :
                          /\ ExecutedAnswer(execution_path[i])
                          /\ execution_path[i].result = best_answer
                          /\ execution_path[i].validation.score = best_score

\* the last allowed iteration meets every other condition of both gates
C8_Witness ==
    /\ cfg.enable_reretrieval /\ cfg.enable_replanning
    /\ Len(execution_path) = cfg.max_iterations
    /\ execution_path # <<>>
    /\ reasoning_result.action = "answer"
    /\ reasoning_result.confidence < ConfidenceThreshold
    /\ ~Last(execution_path).validation.consistent
    /\ best_answer = Last(execution_path).result
    /\ best_score = Last(execution_path).validation.score

\* C11: on both exits (early success and budget exhausted) the returned
\* sources are exactly the source identifiers of the deduplicated accumulated
\* evidence, one per evidence item in evidence order, so that no two returned
\* entries stem from items with the same identity key.
C11_SourcesOfDeduplicatedEvidence ==
    Returned => result.sources = Sources(_deduplicate_documents(context))

\* C12: in every state of a react_loop run bestScore lies in [0,1] (0..10 in
\* tenths), whatever the validation oracle answers, a JSON object carrying a
\* score outside that range included.
C12_BestScoreInUnitInterval == 0 <= best_score /\ best_score <= 10

\* What an index level hands to the merger in one call: nothing when the
\* level is absent, disabled or failing.
LevelItems(level, outcome) ==
    IF LevelSearched(level) /\ ~outcome.raises THEN outcome.docs ELSE <<>>

\* coarse, then standard, then fine
RetrievedInPriorityOrder ==
    LevelItems(ml_index.level1, ml_call.level1)
    \o LevelItems(ml_index.level2, ml_call.level2)
    \o LevelItems(ml_index.level3, ml_call.level3)

TargetCount == IF ml_call.top_k = NoKey THEN RetrievalTopK ELSE ml_call.top_k

FirstWithKey(documents, key) ==
    documents[CHOOSE i \in 1..Len(documents) :
                /\ DocId(documents[i]) = key
                /\ \A j \in 1..(i - 1) : DocId(documents[j]) # key]

\* C13: the output of MultilevelIndex.retrieve holds no two items with the
\* same identity key (source, chunk_index), and every item of the output is,
\* among the retrieved items sharing its key, the first one encountered in
\* level priority order coarse, standard, fine.
C13_MergedKeysDistinctFirstWins ==
    ml_ret.pc = "returned" =>
        /\ NoDuplicateKeys(ml_ret.final_docs)
        /\ \A i \in 1..Len(ml_ret.final_docs) :
              ml_ret.final_docs[i] =
                  FirstWithKey(RetrievedInPriorityOrder, DocId(ml_ret.final_docs[i]))

\* C14: retrieve(query, targetCount) returns the first targetCount items of
\* the accumulator built by appending, in the order coarse, standard, fine,
\* each enabled level's results whose key is not yet present; so at most
\* targetCount items come back and a coarse level's new-key items come first.
C14_PrefixOfPriorityAccumulator ==
    ml_ret.pc = "returned" =>
        /\ ml_ret.final_docs =
              Prefix(_deduplicate_documents(RetrievedInPriorityOrder), TargetCount)
        /\ Len(ml_ret.final_docs) <= TargetCount

\* C15: no level failure is fatal: retrieve never raises; a failing level
\* contributes nothing and the items of the levels that succeeded are
\* returned, the empty sequence when every level fails; an absent or
\* disabled level is skipped.
C15_NoLevelFailureFatal ==
    /\ ml_ret.pc # "raised"
    /\ ml_ret.pc = "returned" =>
          \A i \in 1..Len(ml_ret.final_docs) :
              \E j \in 1..Len(RetrievedInPriorityOrder) :
                  ml_ret.final_docs[i] = RetrievedInPriorityOrder[j]

RerankDone == rr_ret.pc = "returned"
NumCandidates == Len(rr_call.documents)
LongList == NumCandidates > rr_call.top_n

\* C16: for len(candidates) > topN and every oracle response (failure
\* included) rerank returns exactly min(topN, len(candidates)) items, and
\* they are the first entries of a total permutation of the candidate
\* indices: each is a candidate, none out of range, none twice.
C16_PermutationPrefix ==
    (RerankDone /\ LongList) =>
        /\ Len(rr_ret.docs) = rr_call.top_n
        /\ \E perm \in Permutations(1..NumCandidates) :
              \A i \in 1..Len(rr_ret.docs) : rr_ret.docs[i] = rr_call.documents[perm[i]]

\* the oracle named an index twice and one out of range, and the order changed
C16_Witness ==
    /\ RerankDone /\ NumCandidates = 3 /\ rr_call.top_n = 2
    /\ rr_ret.path = "reranked"
    /\ rr_call.oracle.text = << "1", ",", "1", "2" >>
    /\ rr_ret.docs = << rr_call.documents[2], rr_call.documents[1] >>

\* C17: for len(candidates) <= topN rerank returns the candidates unchanged,
\* in their original order, and issues no oracle call.
C17_ShortListUntouched ==
    (RerankDone /\ ~LongList) =>
        /\ rr_ret.docs = rr_call.documents
        /\ rr_ret.oracle_calls = 0

\* as many candidates as topN, and an oracle that would have reversed them
C17_Witness ==
    /\ RerankDone /\ NumCandidates = rr_call.top_n /\ NumCandidates = 2
    /\ rr_call.oracle.text = << "1", ",", "0" >>

\* The integers a response mentions: the values of its maximal digit runs,
\* each with the position where the run starts.
DigitRunAt(text, a, b) ==
    /\ a <= b
    /\ \A p \in a..b : IsDigit(text[p])
    /\ (a = 1 \/ ~IsDigit(text[a - 1]))
    /\ (b = Len(text) \/ ~IsDigit(text[b + 1]))

RECURSIVE Pow10(_)
Pow10(n) == IF n = 0 THEN 1 ELSE 10 * Pow10(n - 1)

RECURSIVE RunValue(_, _, _)
RunValue(text, a, b) ==
    IF a > b THEN 0 ELSE DigitValue(text[a]) * Pow10(b - a) + RunValue(text, a + 1, b)

MentionedAt(text, v) ==
    { a \in 1..Len(text) :
        \E b \in a..Len(text) : DigitRunAt(text, a, b) /\ RunValue(text, a, b) = v }

Min(S) == CHOOSE x \in S : \A y \in S : x <= y

\* Reference repair: mentioned in-range indices by first occurrence, then the
\* unmentioned ones ascending.  An index's rank is the position of its first
\* mention, or, unmentioned, a position past the text plus the index itself.
RepairRank(text, v) ==
    IF MentionedAt(text, v) # {} THEN Min(MentionedAt(text, v)) ELSE Len(text) + 1 + v

ReferenceRepair(text, n) ==
    LET rank == [ v \in 0..(n - 1) |-> RepairRank(text, v) ] IN
    CHOOSE order \in [ 1..n -> 0..(n - 1) ] :
        \A i \in 1..(n - 1) : rank[order[i]] < rank[order[i + 1]]

NoUsableInteger(text, n) == \A v \in 0..(n - 1) : MentionedAt(text, v) = {}

\* C18: the ordering derived from an oracle response is the reference
\* repair (in-range mentioned indices in order of first occurrence, then
\* every unmentioned index ascending), and the returned items follow it; on
\* an oracle failure or a response without a usable integer the result is
\* the original order truncated to topN.
C18_OrderingIsReferenceRepair ==
    (RerankDone /\ LongList) =>
        IF rr_call.oracle.raises \/ NoUsableInteger(rr_call.oracle.text, NumCandidates)
        THEN rr_ret.docs = Prefix(rr_call.documents, rr_call.top_n)
        ELSE LET reference == ReferenceRepair(rr_call.oracle.text, NumCandidates) IN
             /\ rr_ret.reranked_indices = reference
             /\ rr_ret.docs =
                    [ i \in 1..rr_call.top_n |-> rr_call.documents[reference[i] + 1] ]

\* a response "2,12": index 2 first, 12 dropped, 0 and 1 appended
C18_Witness ==
    /\ RerankDone /\ NumCandidates = 3 /\ rr_call.top_n = 2
    /\ rr_call.oracle.text = << "2", ",", "1", "2" >>
    /\ rr_ret.reranked_indices = << 2, 0, 1 >>

Classified == qr_ret.pc = "routed" /\ qr_call.enable_intent_classification

\* C19: intent classification never raises and degrades in the documented
\* order: an oracle response that json.loads rejects is classified by
\* keyword matching over its text; when no keyword matches either, or when
\* the oracle call fails, the result is intent = factual, confidence = 0.5.
C19_ClassificationDegrades ==
    Classified =>
        /\ qr_call.oracle.kind = "error" =>
              qr_ret.intent = FACTUAL /\ qr_ret.confidence = 5
        /\ (qr_call.oracle.kind = "text" /\ qr_call.oracle.keywords # {}) =>
              qr_ret.intent = TextMatch(qr_call.oracle.keywords)
        /\ (qr_call.oracle.kind = "text" /\ qr_call.oracle.keywords = {}) =>
              qr_ret.intent = FACTUAL /\ qr_ret.confidence = 5

StrategyFlag(strategy, key) == IF key \in DOMAIN strategy THEN strategy[key] ELSE FALSE

\* The router's table, one row per intent.
TableRow(intent, base) ==
    [ use_agent |-> intent \in { COMPLEX_REASONING, TOOL_CALL },
      use_multilevel_index |-> intent # TOOL_CALL,
      use_rerank |-> intent # TOOL_CALL,
      top_k |-> IF intent = COMPLEX_REASONING THEN 2 * base
                ELSE IF intent = TOOL_CALL THEN 3 ELSE base,
      enable_tools |-> intent = TOOL_CALL,
      use_memory |-> intent = CONVERSATIONAL ]

\* C20: the strategy is a function of the intent alone (not of the
\* classification confidence nor of the query) and equals the table row of
\* the intent: factual, conversational and unknown without agent loop, with
\* multi-level index and rerank, base count, tools off (conversational with
\* the memory flag); complex_reasoning with agent loop and 2 x base;
\* tool_call with agent loop, no multi-level index, no rerank, count 3, tools on.
C20_StrategyIsTableRow ==
    qr_ret.pc = "routed" =>
        /\ [ use_agent |-> qr_ret.strategy.use_agent,
             use_multilevel_index |-> qr_ret.strategy.use_multilevel_index,
             use_rerank |-> qr_ret.strategy.use_rerank,
             top_k |-> qr_ret.strategy.top_k,
             enable_tools |-> StrategyFlag(qr_ret.strategy, "enable_tools"),
             use_memory |-> StrategyFlag(qr_ret.strategy, "use_memory") ]
           = TableRow(qr_ret.intent, qr_call.top_k)
        /\ \A confidence \in 0..10 :
              _determine_strategy(qr_ret.intent, confidence, qr_call.top_k,
                                  cfg.max_iterations) = qr_ret.strategy

\* a complex_reasoning classification of confidence 0.3 still doubles the count
C20_Witness ==
    /\ qr_ret.pc = "routed"
    /\ qr_ret.intent = COMPLEX_REASONING
    /\ qr_ret.confidence = 3
    /\ qr_ret.strategy.use_agent
    /\ qr_ret.strategy.top_k = 2 * qr_call.top_k

Reasoned == re_ret.pc = "returned" /\ re_call.method = "reason"

\* none of the four labelled fields can be found in the response
NoLabelledField(text) ==
    /\ text.thought = Absent
    /\ text.action \notin { "search", "answer", "tool_call" }
    /\ text.action_input = Absent
    /\ text.confidence.kind = "unlabelled"

\* C21: reason() never raises and never drops the step: when the oracle call
\* fails or the response cannot be parsed into the labelled thought / action /
\* action-input / confidence fields, the step is action = answer with
\* confidence 0.3; and every returned step's action is search, answer or
\* tool_call.
C21_ReasonFailSafe ==
    Reasoned =>
        /\ re_ret.step.action \in { "search", "answer", "tool_call" }
        /\ (re_call.oracle.raises \/ NoLabelledField(re_call.oracle.text)) =>
              re_ret.step.action = "answer" /\ re_ret.step.confidence = 3

Validated == re_ret.pc = "returned" /\ re_call.method = "validate_answer"

\* C28: validate_answer never raises: an oracle failure gives consistent =
\* true with score 0.7; a response that is not parseable as the JSON object
\* gives consistent = false with score 0.3 when the response contains the
\* inconsistency marker, and consistent = true with score 0.7 otherwise.
C28_ValidationAdvisory ==
    Validated =>
        IF re_call.oracle.raises
        THEN re_ret.validation.consistent /\ re_ret.validation.score = 7
        ELSE re_call.oracle.text.body.kind # "object" =>
                IF re_call.oracle.text.marker_outside \/ re_call.oracle.text.marker_inside
                THEN ~re_ret.validation.consistent /\ re_ret.validation.score = 3
                ELSE re_ret.validation.consistent /\ re_ret.validation.score = 7

\* C22: execute never raises and always returns the uniform record with
\* status success or error: a provider exception in a search gives error and
\* no evidence, a generator exception in an answer gives error with the
\* failure text as result, a missing tool or a tool exception gives error,
\* and any other action value gives error without calling a collaborator.
C22_ExecuteUniformRecord ==
    ex_ret.pc = "returned" =>
        LET r == ex_ret.record IN
        /\ { "status", "result", "documents" } \subseteq DOMAIN r
        /\ r.status \in { "success", "error" }
        /\ ("retriever" \in ex_ret.called /\ ex_call.provider.raises) =>
              r.status = "error" /\ r.documents = <<>>
        /\ ("generator" \in ex_ret.called /\ ex_call.gen.raises) =>
              r.status = "error" /\ r.result = AnswerFailedMsg
        /\ ("tools" \in ex_ret.called /\ ex_call.tool.raises) => r.status = "error"
        /\ ex_call.action \notin { "search", "answer", "tool_call" } =>
              r.status = "error" /\ ex_ret.called = {}

\* an unknown action on a fully wired executor whose collaborators would fail
C22_Witness ==
    /\ ex_ret.pc = "returned"
    /\ ex_call.action = "other"
    /\ ex_call.wiring = [ retriever |-> TRUE, generator |-> TRUE, tools |-> TRUE ]
    /\ ex_call.gen.raises /\ ex_call.provider.raises /\ ex_call.tool.raises
    /\ ex_ret.record.status = "error"

\* C23: whenever the evidence provider returns zero items, the single-pass
\* query returns the literal not-found answer with empty sources and has not
\* called the answer generator, whatever the tool-fallback flag is and whether
\* or not a tool registry is configured.
C23_EmptyEvidenceNotFound ==
    (sq_ret.pc # "idle" /\ ~sq_call.provider.raises /\ sq_call.provider.docs = <<>>)
        => /\ sq_ret.pc = "returned"
           /\ sq_ret.answer = NotFoundAnswer
           /\ sq_ret.sources = <<>>
           /\ sq_ret.generator_calls = 0

\* The whitespace-separated words of a query, counted position by position.
Words(query) == Cardinality({ i \in 1..Len(query) : query[i] = "w" })
AutoRewritten ==
    rw_ret.pc = "returned" /\ rw_call.enable_rewrite /\ rw_call.mode = "auto"

\* C24: with rewriting enabled and the automatic mode, the rewrite is an
\* expansion exactly when the query has fewer than 5 words and a
\* simplification exactly when it has more than 20; a query of 5 to 20 words
\* is returned unchanged without an oracle call; and when the oracle call of
\* the chosen rewrite fails the original query is returned.
C24_AutoRewriteMode ==
    AutoRewritten =>
        /\ (rw_ret.mode = "expand") <=> (Words(rw_call.query) < 5)
        /\ (rw_ret.mode = "simplify") <=> (Words(rw_call.query) > 20)
        /\ (Words(rw_call.query) \in 5..20)
             => (rw_ret.query = rw_call.query /\ rw_ret.oracle_calls = 0)
        /\ (Words(rw_call.query) \notin 5..20)
             => /\ rw_ret.oracle_calls = 1
                /\ rw_call.oracle.raises => rw_ret.query = rw_call.query

\* A query of 21 words was sent for simplification, the oracle failed and the
\* query came back unchanged.
C24_Witness ==
    /\ AutoRewritten
    /\ Words(rw_call.query) = 21
    /\ rw_call.oracle.raises
    /\ rw_ret.mode = "simplify"
    /\ rw_ret.query = rw_call.query

\* One iteration of react_loop: the step that issues a reasoning call.
IterationStep == calls'.reason = calls.reason + 1
\* The conditions of the re-retrieval gate, read off the step just reasoned.
GateConditions ==
    /\ cfg.enable_reretrieval
    /\ reasoning_result'.action = "answer"
    /\ reasoning_result'.confidence < ConfidenceThreshold
    /\ iteration + 1 < cfg.max_iterations
ExpandIssued == calls'.expand # calls.expand

\* C25: an iteration takes the re-retrieval branch exactly when re-retrieval
\* is enabled, the step's action is answer, its confidence is below the
\* threshold and the iteration is not the last allowed one; in that branch no
\* answer is executed or validated, exactly one expand call is issued, its
\* results are merged into the deduplicated evidence, one path entry with
\* action reretrieval is logged, and the best answer, the best score and the
\* previous summary stay as they were.
C25_ReretrievalBranch ==
    [][ IterationStep =>
          /\ ExpandIssued <=> GateConditions
          /\ ExpandIssued =>
               /\ calls'.expand = calls.expand + 1
               /\ calls'.execute = calls.execute
               /\ calls'.validate = calls.validate
               /\ Len(execution_path') = Len(execution_path) + 1
               /\ SubSeq(execution_path', 1, Len(execution_path)) = execution_path
               /\ Last(execution_path').action = "reretrieval"
               /\ \E docs \in ProviderResults :
                    /\ context' = _deduplicate_documents(context \o docs)
                    /\ Last(execution_path').result = ExpandedMsg(Len(docs))
               /\ NoDuplicateKeys(context')
               /\ best_answer' = best_answer
               /\ best_score' = best_score
               /\ previous_reasoning' = previous_reasoning ]_vars

\* C26: the expand call of the re-retrieval gate requests (number of items
\* in the accumulated evidence) x 4 results, for every evidence size, the
\* empty evidence included.
C26_ExpandCountIsEvidenceTimesFour ==
    [][ ExpandIssued => search_k' = Len(context) * 4 ]_vars

\* C26, amended: the expand call requests (number of items in the evidence)
\* x 4 results when the evidence is not empty, and 5 x 4 = 20 results when
\* it is empty.
C26_ExpandCountDefaultsOnEmpty ==
    [][ ExpandIssued =>
          search_k' = (IF Len(context) > 0 THEN Len(context) ELSE 5) * 4 ]_vars

\* The first iteration of a run without initial evidence re-retrieved, and
\* the provider was asked for 20 results.
C26_Witness ==
    /\ cfg.initial_context = <<>>
    /\ calls.expand = 1
    /\ calls.reason = 1
    /\ Len(execution_path) = 1
    /\ execution_path[1].action = "reretrieval"
    /\ search_k = 20

\* An iteration that executed an answer and had it validated.
AnswerValidated == calls'.validate = calls.validate + 1
\* The re-planning summary: the iteration number and thought of the last at
\* most 3 path entries, the validation's reason, and the original query.
ReplanSummary(path, why) ==
    LET n == Len(path)
        kept == IF n < 3 THEN n ELSE 3
    IN  [ kind |-> "replan",
          steps |-> [ i \in 1..kept |->
                        << path[n - kept + i].iteration, path[n - kept + i].thought >> ],
          thought |-> "", action |-> "", result |-> Query, reason |-> why ]

\* C27: when an executed answer is validated as inconsistent, re-planning is
\* enabled and the iteration is not the last allowed one, the iteration leaves
\* the best answer and the best score unchanged whatever the score, replaces
\* the previous summary by the re-planning summary built from the last at most
\* 3 path thoughts, the validation's reason and the query, appends exactly one
\* path entry and continues with the next iteration; in every other case
\* after an answer the best answer is updated iff the score strictly exceeds
\* the best score.
C27_ReplanningGate ==
    [][ AnswerValidated =>
          /\ Len(execution_path') = Len(execution_path) + 1
          /\ SubSeq(execution_path', 1, Len(execution_path)) = execution_path
          /\ LET entry == Last(execution_path')
                 validation == entry.validation
                 gate == /\ ~validation.consistent
                         /\ cfg.enable_replanning
                         /\ iteration + 1 < cfg.max_iterations
             IN  /\ gate =>
                       /\ best_answer' = best_answer
                       /\ best_score' = best_score
                       /\ previous_reasoning' =
                              ReplanSummary(execution_path, validation.reason)
                       /\ iteration' = iteration + 1
                       /\ pc' = "running"
                 /\ ~gate =>
                       IF validation.score > best_score
                       THEN best_answer' = entry.result /\ best_score' = validation.score
                       ELSE best_answer' = best_answer /\ best_score' = best_score ]_vars

\* An iteration re-planned with more than 3 entries in the path: the summary
\* lists the last 3 of them, and the answer, whose score exceeds the best
\* score, did not become the best answer.
C27_Witness ==
    /\ Len(execution_path) = PastIterations + 1
    /\ Last(execution_path).result = ReplanMsg
    /\ Last(execution_path).validation.score > best_score
    /\ previous_reasoning.kind = "replan"
    /\ Len(previous_reasoning.steps) = 3
    /\ previous_reasoning.steps[1][1] = PastIterations - 2
    /\ best_answer = None

\* The synthetic evidence item of a logged tool_call entry that succeeded.
ToolItem(entry) ==
    [ source |-> ToolSource(entry.action_input), chunk_index |-> NoChunk,
      content |-> entry.result ]
SuccessfulToolCall(entry) == entry.action = "tool_call" /\ entry.result \in ToolResults

\* C29: the synthetic evidence item of every successful tool_call iteration
\* is in the accumulated evidence at every later iteration and at return,
\* also when the same tool had already been called successfully earlier in
\* the run: both results are kept.
C29_ToolEvidenceKept ==
    \A i \in 1..Len(execution_path) :
        SuccessfulToolCall(execution_path[i])
            => \E j \in 1..Len(context) : context[j] = ToolItem(execution_path[i])

\* The best answer is recorded iff the best score is above 0, and it is the
\* earliest executed answer with that score.
BestPair ==
    /\ (best_answer # None) <=> (best_score > 0)
    /\ best_score > 0 =>
         \E i \in 1..Len(execution_path) :
            /\ ExecutedAnswer(execution_path[i])
            /\ execution_path[i].validation.score = best_score
            /\ execution_path[i].result = best_answer
            /\ \A j \in 1..(i - 1) :
                 ExecutedAnswer(execution_path[j])
                    => execution_path[j].validation.score # best_score
BestChangesInAnswerIterations ==
    (best_answer' # best_answer \/ best_score' # best_score)
        => /\ Len(execution_path') = Len(execution_path) + 1
           /\ ExecutedAnswer(Last(execution_path'))

\* C30: in every reachable state the best answer and the best score go
\* together: a best answer is recorded iff the best score is above 0, it is
\* the earliest executed answer (re-planned iterations aside) whose validation
\* score equals the best score, and the pair changes only in iterations that
\* executed an answer; search, tool_call, re-retrieval and re-planning
\* iterations leave both unchanged.
C30_BestPairTogether ==
    BestPair /\ [][BestChangesInAnswerIterations /\ BestPair']_vars

\* Two answers were executed with the same score; the first one is the best.
C30_Witness ==
    /\ Len(execution_path) = 2
    /\ ExecutedAnswer(execution_path[1])
    /\ ExecutedAnswer(execution_path[2])
    /\ execution_path[1].validation.score = execution_path[2].validation.score
    /\ execution_path[1].result # execution_path[2].result
    /\ best_score = execution_path[1].validation.score
    /\ best_answer = execution_path[1].result

====
